---- MODULE Spec2Model ----
(***************************************************************************)
(* Model of the quantity-based scheduling simulation of app.py:            *)
(* assign_tasks, its helpers calculate_skill_match, format_time and        *)
(* check_requirements_met_for_qty, the data classes that feed it and the   *)
(* caller's report of its result.                                          *)
(***************************************************************************)
EXTENDS Integers, Sequences, FiniteSets, TLC

\* ---------------------------------------------------------------------
\* Bounds of the model
\* ---------------------------------------------------------------------
MaxQty == 2
MaxWorkers == 2
MaxOverrunSlots == 2

\* ---------------------------------------------------------------------
\* Program constants and input domains
\* ---------------------------------------------------------------------
SkillNames == {"Bending", "Gluing", "Assembling", "EdgeScrap", "OpenPaper", "QualityControl"}
SkillOrder == <<"Bending", "Gluing", "Assembling", "EdgeScrap", "OpenPaper", "QualityControl">>

\* Task ids of product Kit, whose tasks form one prerequisite chain.
ChainIds ==
    <<"K01", "K02", "K03", "K04", "K05", "K06", "K07", "K08", "K09",
      "K10", "K11", "K12", "K13", "K14", "K15", "K16", "K17", "K18",
      "K19", "K20", "K21", "K22", "K23", "K24", "K25", "K26", "K27",
      "K28", "K29", "K30", "K31", "K32", "K33", "K34">>

TaskIds == {"T1", "T2", "T3"} \cup { ChainIds[i] : i \in DOMAIN ChainIds }
\* Python's string order on the task ids, used by sort_values(by="Result"):
\* "K01" < ... < "K34" < "T1" < "T2" < "T3".
IdRank ==
    [id \in TaskIds |->
        IF \E i \in DOMAIN ChainIds : ChainIds[i] = id
        THEN CHOOSE i \in DOMAIN ChainIds : ChainIds[i] = id
        ELSE Len(ChainIds) + (CASE id = "T1" -> 1 [] id = "T2" -> 2 [] id = "T3" -> 3)]

Pct(b, g) == [s \in SkillNames |-> IF s = "Bending" THEN b ELSE IF s = "Gluing" THEN g ELSE 0]

\* The None that assign_tasks returns from its except branch.
None == [kind |-> "None"]

\* Seconds per piece offered to the catalog rows; 0 makes line 281 divide by zero.
TimeChoices == {0, 600, 1800, 2400}
\* Slot durations (minutes) assign_tasks is called with; 30 is the default.
SlotChoices == {30, 50}
\* Raw "Requirements" cells of the catalog, as the tokens between commas of
\* str(cell): a missing cell reads <<"nan">>, "T1" reads <<"T1">>.
ReqChoicesT1 == {<<"nan">>, <<"T2">>}
ReqChoicesT2 == {<<"nan">>, <<"T1">>, <<"", "T3">>}
\* Skill rows of the worker catalog.
WorkerSkillChoices == {Pct(100, 100), Pct(100, 50)}

CatalogRow(product, desc, id, reqs, skills, tpp) ==
    [Product |-> product, Task |-> desc, Result |-> id, Requirements |-> reqs,
     Skills |-> skills, TimePerPieceSeconds |-> tpp]

\* A products.csv snapshot with the single product Kit: every task but the
\* first requires the task before it.
KitCatalog ==
    [i \in DOMAIN ChainIds |->
        CatalogRow("Kit", "Step", ChainIds[i],
                   IF i = 1 THEN <<"nan">> ELSE <<ChainIds[i - 1]>>, Pct(100, 0), 900)]

\* products.csv snapshots: product Box with tasks T2, T1 (stored unsorted) and
\* product Lid with task T3; or product Kit.
Catalogs ==
    {KitCatalog} \cup
    { << CatalogRow("Box", "Glue", "T2", r2, Pct(0, 100), t2),
         CatalogRow("Box", "Bend", "T1", r1, Pct(100, 0), t1),
         CatalogRow("Lid", "Cut", "T3", <<"nan">>, Pct(0, 0), 1800) >> :
        r1 \in ReqChoicesT1, r2 \in ReqChoicesT2, t1 \in TimeChoices, t2 \in TimeChoices }

WorkerCatalogs ==
    UNION { { [i \in 1..n |-> [Worker |-> i, Skills |-> f[i]]] : f \in [1..n -> WorkerSkillChoices] } :
            n \in 0..MaxWorkers }

\* ---------------------------------------------------------------------
\* Generic helpers
\* ---------------------------------------------------------------------
RECURSIVE SumSeq(_)
SumSeq(s) == IF s = <<>> THEN 0 ELSE Head(s) + SumSeq(Tail(s))

Max2(a, b) == IF a >= b THEN a ELSE b
Min2(a, b) == IF a <= b THEN a ELSE b

\* math.ceil(a / b) for a >= 0, b > 0
CeilDiv(a, b) == (a + b - 1) \div b

\* ---------------------------------------------------------------------
\* Data classes
\* ---------------------------------------------------------------------
\* TaskSimulationData.__init__: a NaN cell becomes the empty list, otherwise
\* the non-empty tokens are kept in order.  skill_requirements keeps the
\* percentage; calculate_skill_match accounts for the division by 100.
TaskSimulationData(product_row) ==
    [product |-> product_row.Product,
     description |-> product_row.Task,
     task_id |-> product_row.Result,
     requirements |-> IF product_row.Requirements = <<"nan">>
                      THEN <<>>
                      ELSE SelectSeq(product_row.Requirements, LAMBDA req : req # ""),
     skill_requirements |-> product_row.Skills,
     time_per_piece_seconds |-> product_row.TimePerPieceSeconds]

WorkerSimulationData(worker_row) ==
    [name |-> worker_row.Worker, skills |-> worker_row.Skills]

\* ---------------------------------------------------------------------
\* Helper functions
\* ---------------------------------------------------------------------
\* Exact fractions <<numerator, denominator>> stand for the floats of the code.
FracAdd(x, y) == <<x[1] * y[2] + y[1] * x[2], x[2] * y[2]>>
FracLess(x, y) == x[1] * y[2] < y[1] * x[2]
FracEq(x, y) == x[1] * y[2] = y[1] * x[2]

RECURSIVE SkillTotal(_, _, _)
\* The loop of calculate_skill_match: <<total_score, count>> over the skills
\* with a positive required ratio; score = skill / max(0.01, pct / 100).
SkillTotal(skills, worker_skills, task_skill_requirements) ==
    IF skills = <<>> THEN <<<<0, 1>>, 0>>
    ELSE LET rest == SkillTotal(Tail(skills), worker_skills, task_skill_requirements)
             pct == task_skill_requirements[Head(skills)]
         IN IF pct > 0
            THEN <<FracAdd(rest[1], <<100 * worker_skills[Head(skills)], pct>>), rest[2] + 1>>
            ELSE rest

calculate_skill_match(worker_skills, task_skill_requirements) ==
    LET tc == SkillTotal(SkillOrder, worker_skills, task_skill_requirements)
    IN IF tc[2] > 0 THEN <<tc[1][1], tc[1][2] * tc[2]>> ELSE <<1, 10>>

\* format_time: the "HH:MM" label as the pair of numbers it prints.
format_time(minutes) == [hh |-> 8 + (minutes \div 60), mm |-> minutes % 60]

\* Variant: the comparison of line 203 written "<" instead of "<=".
check_requirements_off_by_one(task, inventory_) ==
    \A k \in DOMAIN task.requirements : ~(inventory_[task.requirements[k]] < 0)

check_requirements_met_for_qty(task, inventory_) ==
    \A k \in DOMAIN task.requirements : ~(inventory_[task.requirements[k]] <= 0)

\* ---------------------------------------------------------------------
\* State
\* ---------------------------------------------------------------------
VARIABLES
    products_df,            \* input: catalog rows
    available_workers_df,   \* input: rows of the selected workers
    products_to_produce,    \* input: the order, <<product, qty>> in dict order
    slot_duration_minutes,  \* input
    pc,                     \* position in assign_tasks
    all_task_instances,
    estimated_days,
    current_time_minutes,
    current_day,
    current_slot,
    inventory,
    schedule,
    simulation_log,
    available_tasks,        \* indices into all_task_instances, in list order
    worker_assignments,     \* per worker (dict order), index of the assigned task
    worker_idx,             \* position of the for loop of line 267
    task,                   \* index of the task the worker holds
    time_remaining,
    dominant_task,
    pieces_total,
    result                  \* what assign_tasks returned

inputs == <<products_df, available_workers_df, products_to_produce, slot_duration_minutes>>
slot_locals == <<available_tasks, worker_assignments, worker_idx>>
worker_locals == <<task, time_remaining, dominant_task, pieces_total>>
clock == <<current_time_minutes, current_day, current_slot>>
vars == <<inputs, pc, all_task_instances, estimated_days, clock, inventory, schedule,
          simulation_log, slot_locals, worker_locals, result>>

workday_minutes == 8 * 60
slot_duration_seconds == slot_duration_minutes * 60

\* ---------------------------------------------------------------------
\* Demand expansion (lines 216-232) and the order built by main (398-404)
\* ---------------------------------------------------------------------
RECURSIVE UniqueProducts(_, _)
\* products_df["Product"].unique(): first appearances, in row order.
UniqueProducts(df, seen) ==
    IF df = <<>> THEN <<>>
    ELSE IF Head(df).Product \in seen
         THEN UniqueProducts(Tail(df), seen)
         ELSE <<Head(df).Product>> \o UniqueProducts(Tail(df), seen \cup {Head(df).Product})

RECURSIVE OrderOf(_, _)
\* main, lines 398-404: one entry per product with qty > 0.
OrderOf(products, qty) ==
    IF products = <<>> THEN <<>>
    ELSE (IF qty[Head(products)] > 0 THEN << <<Head(products), qty[Head(products)]>> >> ELSE <<>>)
         \o OrderOf(Tail(products), qty)

\* {row["Result"]: TaskSimulationData(row)}: the last row of an id wins.
task_sim_data_map(df) ==
    [id \in { df[i].Result : i \in DOMAIN df } |->
        LET last == CHOOSE i \in DOMAIN df :
                        /\ df[i].Result = id
                        /\ \A j \in DOMAIN df : df[j].Result = id => j <= i
        IN TaskSimulationData(df[last])]

worker_sim_data_map(df) == [i \in DOMAIN df |-> WorkerSimulationData(df[i])]

RECURSIVE SortByResult(_)
\* sort_values(by="Result"): ascending task id.
SortByResult(rows) ==
    IF rows = <<>> THEN <<>>
    ELSE LET m == CHOOSE i \in DOMAIN rows :
                      \A j \in DOMAIN rows :
                          \/ IdRank[rows[i].Result] < IdRank[rows[j].Result]
                          \/ (IdRank[rows[i].Result] = IdRank[rows[j].Result] /\ i <= j)
         IN <<rows[m]>> \o SortByResult([k \in 1..(Len(rows) - 1) |->
                                            IF k < m THEN rows[k] ELSE rows[k + 1]])

TaskInstance(sim, qty) ==
    [task_id |-> sim.task_id, description |-> sim.description, product |-> sim.product,
     requirements |-> sim.requirements, skill_requirements |-> sim.skill_requirements,
     time_per_piece |-> sim.time_per_piece_seconds, remaining_qty |-> qty]

RECURSIVE ExpandOrder(_, _)
ExpandOrder(order, df) ==
    IF order = <<>> THEN <<>>
    ELSE LET product_name == Head(order)[1]
             qty == Head(order)[2]
             product_tasks == SortByResult(SelectSeq(df, LAMBDA row : row.Product = product_name))
         IN [k \in DOMAIN product_tasks |->
                TaskInstance(task_sim_data_map(df)[product_tasks[k].Result], qty)]
            \o ExpandOrder(Tail(order), df)

\* Variant: line 236 rounding down instead of up.
EstimateDaysFloor(instances, workers) ==
    Max2(1, SumSeq([k \in DOMAIN instances |->
                      instances[k].time_per_piece * instances[k].remaining_qty])
               \div (workers * workday_minutes * 60))

\* Horizon estimate, lines 234-236 (the caller guarantees workers > 0).
EstimateDays(instances, workers) ==
    LET total_seconds == SumSeq([k \in DOMAIN instances |->
                                   instances[k].time_per_piece * instances[k].remaining_qty])
        total_worker_seconds_per_day == workers * workday_minutes * 60
    IN Max2(1, CeilDiv(total_seconds, total_worker_seconds_per_day))

SafetyCutoff == estimated_days * workday_minutes * 2

\* ---------------------------------------------------------------------
\* Init: the call assign_tasks(products_to_produce, available_workers_df,
\* products_df, slot_duration_minutes) is about to run.
\* ---------------------------------------------------------------------
Init ==
    /\ products_df \in Catalogs
    /\ available_workers_df \in WorkerCatalogs
    /\ \E box \in 0..MaxQty, lid \in 0..1 :
          /\ products_to_produce =
                OrderOf(UniqueProducts(products_df, {}),
                        [p \in {"Box", "Lid", "Kit"} |->
                            CASE p = "Box" -> box [] p = "Lid" -> lid [] p = "Kit" -> 1])
          /\ products_to_produce # <<>>
    /\ slot_duration_minutes \in SlotChoices
    /\ pc = "start"
    /\ all_task_instances = <<>>
    /\ estimated_days = 0
    /\ current_time_minutes = 0
    /\ current_day = 0
    /\ current_slot = 0
    /\ inventory = [id \in TaskIds |-> 0]
    /\ schedule = <<>>
    /\ simulation_log = <<>>
    /\ available_tasks = <<>>
    /\ worker_assignments = <<>>
    /\ worker_idx = 0
    /\ task = 0
    /\ time_remaining = 0
    /\ dominant_task = "T1"
    /\ pieces_total = 0
    /\ result = [kind |-> "running"]

\* ---------------------------------------------------------------------
\* assign_tasks
\* ---------------------------------------------------------------------
\* The dict of lines 302-309.
ReturnValue ==
    [kind |-> "dict",
     schedule |-> schedule,
     inventory |-> inventory,
     simulation_log |-> simulation_log,
     estimated_days |-> current_day,
     all_task_instances |-> all_task_instances,
     worker_sim_data_map |-> worker_sim_data_map(available_workers_df)]

\* Variant: the except branch hands back what the run had built so far.
ExceptReturnsPartial == ReturnValue

\* The except branch, lines 311-313: st.error(...) and return None.
ExceptReturn == None

\* Line 252: instances with work left that pass the gate, in list order.
EligibleTasks(instances, inventory_) ==
    SelectSeq([k \in DOMAIN instances |-> k],
              LAMBDA k : /\ instances[k].remaining_qty > 0
                         /\ check_requirements_met_for_qty(instances[k], inventory_))

\* Variant: the key of line 263 without its remaining_qty component.
AssignKeySkillOnly(worker, instances, a, b) ==
    FracLess(calculate_skill_match(worker.skills, instances[b].skill_requirements),
             calculate_skill_match(worker.skills, instances[a].skill_requirements))

\* Line 263: the key (skill match, remaining_qty) of a exceeds that of b,
\* compared as Python compares tuples.
AssignKeyGreater(worker, instances, a, b) ==
    LET sa == calculate_skill_match(worker.skills, instances[a].skill_requirements)
        sb == calculate_skill_match(worker.skills, instances[b].skill_requirements)
    IN \/ FracLess(sb, sa)
       \/ (FracEq(sa, sb) /\ instances[a].remaining_qty > instances[b].remaining_qty)

\* Lines 261-264: max(available_tasks, key=...) returns the first candidate
\* whose key no other candidate exceeds.
BestTask(worker, candidates, instances) ==
    candidates[CHOOSE i \in DOMAIN candidates :
        /\ \A j \in DOMAIN candidates :
              ~AssignKeyGreater(worker, instances, candidates[j], candidates[i])
        /\ \A j \in DOMAIN candidates :
              j < i => AssignKeyGreater(worker, instances, candidates[i], candidates[j])]

\* Line 277: max(available_tasks, key=remaining_qty), first maximum.
NextTask(candidates, instances) ==
    candidates[CHOOSE i \in DOMAIN candidates :
        /\ \A j \in DOMAIN candidates :
              instances[candidates[j]].remaining_qty <= instances[candidates[i]].remaining_qty
        /\ \A j \in DOMAIN candidates :
              j < i => instances[candidates[j]].remaining_qty
                          < instances[candidates[i]].remaining_qty]

\* Line 274: drop the exhausted tasks from the slot's candidate list.
StillOpen(candidates, instances) ==
    SelectSeq(candidates, LAMBDA k : instances[k].remaining_qty > 0)

AllDone == \A k \in DOMAIN all_task_instances : all_task_instances[k].remaining_qty <= 0

\* Lines 211-242.  With no worker row, line 236 divides by zero and the
\* except branch returns None.
Setup ==
    /\ pc = "start"
    /\ LET instances == ExpandOrder(products_to_produce, products_df)
       IN /\ all_task_instances' = instances
          /\ IF Len(available_workers_df) = 0
             THEN /\ pc' = "failed"
                  /\ result' = ExceptReturn
                  /\ UNCHANGED <<estimated_days, current_day>>
             ELSE /\ pc' = "loop"
                  /\ estimated_days' = EstimateDays(instances, Len(available_workers_df))
                  /\ current_day' = 1
                  /\ UNCHANGED result
    /\ UNCHANGED <<inputs, current_time_minutes, current_slot, inventory, schedule,
                   simulation_log, slot_locals, worker_locals>>

\* Lines 245-246 and 302-309: all demand met, leave the loop and return.
LoopDone ==
    /\ pc = "loop"
    /\ AllDone
    /\ pc' = "returned"
    /\ result' = ReturnValue
    /\ UNCHANGED <<inputs, all_task_instances, estimated_days, clock, inventory, schedule,
                   simulation_log, slot_locals, worker_locals>>

\* Line 248.
DayIndex(minutes) == (minutes \div workday_minutes) + 1

\* Variant: line 249 without the "% workday_minutes".
SlotIndexNoWrap(minutes) == minutes \div slot_duration_minutes

\* Line 249.
SlotIndex(minutes) == (minutes % workday_minutes) \div slot_duration_minutes

\* Variant: line 254 adding the slot's seconds to the minutes.
SkipAdvanceSeconds(minutes) == minutes + slot_duration_seconds

\* Line 254.
SkipAdvance(minutes) == minutes + slot_duration_minutes

\* Lines 248-255: no eligible task; advance time and continue (the cutoff
\* test of line 299 is not on this path).
SlotSkipped ==
    /\ pc = "loop"
    /\ ~AllDone
    /\ EligibleTasks(all_task_instances, inventory) = <<>>
    /\ current_time_minutes < SafetyCutoff + MaxOverrunSlots * slot_duration_minutes
    /\ current_day' = DayIndex(current_time_minutes)
    /\ current_slot' = SlotIndex(current_time_minutes)
    /\ available_tasks' = <<>>
    /\ current_time_minutes' = SkipAdvance(current_time_minutes)
    /\ UNCHANGED <<inputs, pc, all_task_instances, estimated_days, inventory, schedule,
                   simulation_log, worker_assignments, worker_idx, worker_locals, result>>

\* Lines 248-265: some task is eligible; every worker gets its best task.
SlotAssign ==
    /\ pc = "loop"
    /\ ~AllDone
    /\ EligibleTasks(all_task_instances, inventory) # <<>>
    /\ current_day' = DayIndex(current_time_minutes)
    /\ current_slot' = SlotIndex(current_time_minutes)
    /\ available_tasks' = EligibleTasks(all_task_instances, inventory)
    /\ worker_assignments' =
          [w \in DOMAIN available_workers_df |->
              BestTask(worker_sim_data_map(available_workers_df)[w],
                       EligibleTasks(all_task_instances, inventory), all_task_instances)]
    /\ worker_idx' = 1
    /\ pc' = "for_worker"
    /\ UNCHANGED <<inputs, all_task_instances, estimated_days, current_time_minutes,
                   inventory, schedule, simulation_log, worker_locals, result>>

\* Lines 267-270: the next worker of worker_assignments starts its slot.
WorkerStart ==
    /\ pc = "for_worker"
    /\ worker_idx <= Len(worker_assignments)
    /\ task' = worker_assignments[worker_idx]
    /\ time_remaining' = slot_duration_seconds
    /\ dominant_task' = all_task_instances[worker_assignments[worker_idx]].task_id
    /\ pieces_total' = 0
    /\ pc' = "while"
    /\ UNCHANGED <<inputs, all_task_instances, estimated_days, clock, inventory, schedule,
                   simulation_log, slot_locals, result>>

\* Line 296: schedule[current_day][worker_name][current_slot] = "[id] desc (n pcs)".
ScheduleCell(id, description, pieces) ==
    [task_id |-> id, description |-> description, pieces |-> pieces]

CellKey == <<current_day, worker_sim_data_map(available_workers_df)[worker_idx].name, current_slot>>

\* Leaving the while loop of line 272: write the cell, go to the next worker.
WriteCell(held_task, pieces) ==
    /\ schedule' = [key \in DOMAIN schedule \cup {CellKey} |->
                       IF key = CellKey
                       THEN ScheduleCell(dominant_task,
                                         all_task_instances[held_task].description, pieces)
                       ELSE schedule[key]]
    /\ worker_idx' = worker_idx + 1
    /\ pc' = "for_worker"

\* Line 272 false: the slot's time is used up.
WhileExit ==
    /\ pc = "while"
    /\ ~(time_remaining > 0)
    /\ WriteCell(task, pieces_total)
    /\ UNCHANGED <<inputs, all_task_instances, estimated_days, clock, inventory,
                   simulation_log, available_tasks, worker_assignments, worker_locals, result>>

\* Lines 273-278: the held task is exhausted and another one is open.
SwitchTask ==
    /\ pc = "while"
    /\ time_remaining > 0
    /\ all_task_instances[task].remaining_qty <= 0
    /\ StillOpen(available_tasks, all_task_instances) # <<>>
    /\ available_tasks' = StillOpen(available_tasks, all_task_instances)
    /\ task' = NextTask(StillOpen(available_tasks, all_task_instances), all_task_instances)
    /\ UNCHANGED <<inputs, pc, all_task_instances, estimated_days, clock, inventory, schedule,
                   simulation_log, worker_assignments, worker_idx, time_remaining,
                   dominant_task, pieces_total, result>>

\* Lines 273-276 and 296: the held task is exhausted and nothing is open.
SwitchNone ==
    /\ pc = "while"
    /\ time_remaining > 0
    /\ all_task_instances[task].remaining_qty <= 0
    /\ StillOpen(available_tasks, all_task_instances) = <<>>
    /\ available_tasks' = <<>>
    /\ WriteCell(task, pieces_total)
    /\ UNCHANGED <<inputs, all_task_instances, estimated_days, clock, inventory,
                   simulation_log, worker_assignments, worker_locals, result>>

\* Variant: line 281 without the min over remaining_qty.
MaxPiecesUncapped(instance, time_left) == time_left \div instance.time_per_piece

\* Variant: line 281 without the bound by the time left.
MaxPiecesAllRemaining(instance, time_left) == instance.remaining_qty

\* Line 281.
MaxPieces(instance, time_left) ==
    Min2(instance.remaining_qty, time_left \div instance.time_per_piece)

\* Variants: line 284 written "=" instead of "+=", and counting one piece
\* per production step.
AddPiecesOverwrite(inventory_, id, max_pieces) == [inventory_ EXCEPT ![id] = max_pieces]
AddPiecesOne(inventory_, id, max_pieces) == [inventory_ EXCEPT ![id] = @ + 1]

\* Line 284: inventory[task["task_id"]] += max_pieces.
AddPieces(inventory_, id, max_pieces) == [inventory_ EXCEPT ![id] = @ + max_pieces]

\* Lines 280-292: produce max_pieces > 0 pieces of the held task.
Produce ==
    /\ pc = "while"
    /\ time_remaining > 0
    /\ all_task_instances[task].remaining_qty > 0
    /\ all_task_instances[task].time_per_piece # 0
    /\ LET tpp == all_task_instances[task].time_per_piece
           max_pieces == MaxPieces(all_task_instances[task], time_remaining)
       IN /\ max_pieces > 0
          /\ all_task_instances' =
                [all_task_instances EXCEPT ![task].remaining_qty = @ - max_pieces]
          /\ inventory' = AddPieces(inventory, all_task_instances[task].task_id, max_pieces)
          /\ pieces_total' = pieces_total + max_pieces
          /\ time_remaining' = time_remaining - max_pieces * tpp
          /\ simulation_log' = Append(simulation_log,
                [time |-> format_time(current_time_minutes),
                 worker |-> worker_sim_data_map(available_workers_df)[worker_idx].name,
                 pieces |-> max_pieces,
                 task_id |-> all_task_instances[task].task_id,
                 description |-> all_task_instances[task].description])
    /\ UNCHANGED <<inputs, pc, estimated_days, clock, schedule, slot_locals, task,
                   dominant_task, result>>

\* Lines 280-282, 293-296: not even one piece fits in the time left.
NoPieceFits ==
    /\ pc = "while"
    /\ time_remaining > 0
    /\ all_task_instances[task].remaining_qty > 0
    /\ all_task_instances[task].time_per_piece # 0
    /\ ~(MaxPieces(all_task_instances[task], time_remaining) > 0)
    /\ WriteCell(task, pieces_total)
    /\ UNCHANGED <<inputs, all_task_instances, estimated_days, clock, inventory,
                   simulation_log, available_tasks, worker_assignments, worker_locals, result>>

\* Line 281 with time_per_piece = 0: ZeroDivisionError, caught at 311-313.
Fault ==
    /\ pc = "while"
    /\ time_remaining > 0
    /\ all_task_instances[task].remaining_qty > 0
    /\ all_task_instances[task].time_per_piece = 0
    /\ pc' = "failed"
    /\ result' = ExceptReturn
    /\ UNCHANGED <<inputs, all_task_instances, estimated_days, clock, inventory, schedule,
                   simulation_log, slot_locals, worker_locals>>

\* Lines 298-300 (and 302-309 when the cutoff is passed).
SlotEnd ==
    /\ pc = "for_worker"
    /\ worker_idx > Len(worker_assignments)
    /\ current_time_minutes' = current_time_minutes + slot_duration_minutes
    /\ IF current_time_minutes + slot_duration_minutes > SafetyCutoff
       THEN /\ pc' = "returned"
            /\ result' = ReturnValue
       ELSE /\ pc' = "loop"
            /\ UNCHANGED result
    /\ UNCHANGED <<inputs, all_task_instances, estimated_days, current_day, current_slot,
                   inventory, schedule, simulation_log, slot_locals, worker_locals>>

\* display_simulation_results, lines 347-351: what the caller reports.
display_simulation_results(res) ==
    IF res = None
    THEN [level |-> "error", text |-> "Simulation failed!"]
    ELSE [level |-> "success", text |-> "Simulation completed!", days |-> res.estimated_days]

Next ==
    \/ Setup
    \/ LoopDone
    \/ SlotSkipped
    \/ SlotAssign
    \/ WorkerStart
    \/ WhileExit
    \/ SwitchTask
    \/ SwitchNone
    \/ Produce
    \/ NoPieceFits
    \/ Fault
    \/ SlotEnd

Spec == Init /\ [][Next]_vars

\* ---------------------------------------------------------------------
\* Vocabulary of the properties
\* ---------------------------------------------------------------------
Running == pc \in {"loop", "for_worker", "while"}
Returned == pc = "returned"
Failed == pc = "failed"

\* Quantity the order asks of a product (0 when it is not ordered).
OrderedQty(product) ==
    SumSeq([k \in DOMAIN products_to_produce |->
              IF products_to_produce[k][1] = product THEN products_to_produce[k][2] ELSE 0])

\* Pieces of task id recorded in a log.
LoggedPieces(log, id) ==
    SumSeq([k \in DOMAIN log |-> IF log[k].task_id = id THEN log[k].pieces ELSE 0])

\* Elapsed minutes a log label stands for, and the day and slot of that time.
MinutesOf(label) == (label.hh - 8) * 60 + label.mm
DayOf(label) == (MinutesOf(label) \div workday_minutes) + 1
SlotOf(label) == (MinutesOf(label) % workday_minutes) \div slot_duration_minutes

\* The log entries of one worker in one (day, slot), in order.
EntriesOfCell(log, key) ==
    SelectSeq(log, LAMBDA e : /\ e.worker = key[2]
                              /\ DayOf(e.time) = key[1]
                              /\ SlotOf(e.time) = key[3])

\* Pieces of task id logged under one time label, and under the other labels.
LoggedAt(log, id, label) ==
    SumSeq([k \in DOMAIN log |->
              IF log[k].task_id = id /\ log[k].time = label THEN log[k].pieces ELSE 0])

\* remaining_qty instance k had when the current slot started: the ordered
\* quantity less the pieces logged in the earlier slots.
SlotStartQty(k) ==
    OrderedQty(all_task_instances[k].product)
        - (LoggedPieces(simulation_log, all_task_instances[k].task_id)
             - LoggedAt(simulation_log, all_task_instances[k].task_id,
                        format_time(current_time_minutes)))

LastEntry == simulation_log[Len(simulation_log)]

\* The step appended one entry to the log, i.e. it produced pieces.
ProducedStep == simulation_log' # simulation_log

\* ---------------------------------------------------------------------
\* C1: the main loop stops in bounded simulated time: while it is still
\* running, elapsed time has not passed the safety cutoff (a run whose slots
\* have no eligible task stops at the cutoff too).
\* ---------------------------------------------------------------------
C1_StopsAtCutoff == Running => current_time_minutes <= SafetyCutoff

\* ---------------------------------------------------------------------
\* C2: a run that returns with work left (ABORTED) is reported differently
\* from a run that returns with all work done (DONE): it is not reported as
\* a success.
\* ---------------------------------------------------------------------
C2_AbortedNotSuccess ==
    (Returned /\ ~AllDone) => display_simulation_results(result).level # "success"

\* ---------------------------------------------------------------------
\* C3: when a run ends with every remaining_qty 0, each task's inventory and
\* the pieces logged for it both equal the quantity ordered of its product.
\* ---------------------------------------------------------------------
C3_Conservation ==
    (Returned /\ AllDone) =>
        \A k \in DOMAIN all_task_instances :
            LET t == all_task_instances[k]
            IN /\ result.inventory[t.task_id] = OrderedQty(t.product)
               /\ LoggedPieces(result.simulation_log, t.task_id) = OrderedQty(t.product)

C3_Witness ==
    /\ Returned /\ AllDone
    /\ \E i, j \in DOMAIN simulation_log :
          /\ i < j
          /\ simulation_log[i].time = simulation_log[j].time
          /\ simulation_log[i].task_id = simulation_log[j].task_id
          /\ simulation_log[i].worker # simulation_log[j].worker

\* ---------------------------------------------------------------------
\* C4: whenever pieces of a task are produced, every prerequisite of the
\* task has positive inventory at that moment.
\* ---------------------------------------------------------------------
C4_EligibilityRespected ==
    [][ProducedStep =>
          \A k \in DOMAIN all_task_instances[task].requirements :
              inventory[all_task_instances[task].requirements[k]] > 0]_vars

\* A task with a prerequisite is produced after a mid-slot switch to it.
C4_Witness ==
    /\ pc = "while"
    /\ simulation_log # <<>>
    /\ LastEntry.task_id = all_task_instances[task].task_id
    /\ LastEntry.time = format_time(current_time_minutes)
    /\ LastEntry.worker = worker_idx
    /\ all_task_instances[task].requirements # <<>>
    /\ task # worker_assignments[worker_idx]

\* ---------------------------------------------------------------------
\* C5: product Box alone, T1 without prerequisite, T2 requiring T1, one
\* worker fully skilled in both: T1 is fully produced before any log entry
\* of T2, and a finished run has inventory T1 = T2 = q.
\* ---------------------------------------------------------------------
BoxScenario ==
    /\ Len(available_workers_df) = 1
    /\ available_workers_df[1].Skills = Pct(100, 100)
    /\ OrderedQty("Lid") = 0
    /\ \A i \in DOMAIN products_df :
          /\ products_df[i].Result = "T1" => products_df[i].Requirements = <<"nan">>
          /\ products_df[i].Result = "T2" => products_df[i].Requirements = <<"T1">>

C5_PrerequisiteCompleteFirst ==
    BoxScenario =>
        /\ (\E k \in DOMAIN simulation_log : simulation_log[k].task_id = "T2")
              => inventory["T1"] = OrderedQty("Box")
        /\ (Returned /\ AllDone)
              => (result.inventory["T1"] = OrderedQty("Box") /\ result.inventory["T2"] = OrderedQty("Box"))

\* ---------------------------------------------------------------------
\* C6: a call with no worker and a non-empty order fails with an outcome
\* that differs from the outcome of the other failures.
\* ---------------------------------------------------------------------
C6_NoCapacityDistinct ==
    (Failed /\ Len(available_workers_df) = 0 /\ products_to_produce # <<>>)
        => (result # ExceptReturn /\ result.kind # "dict")

\* ---------------------------------------------------------------------
\* C7: a schedule cell names the first task its worker worked in the slot,
\* by id and by description, and counts all the pieces the worker produced
\* in the slot.
\* ---------------------------------------------------------------------
C7_CellSummarisesSlot ==
    \A key \in DOMAIN schedule :
        LET entries == EntriesOfCell(simulation_log, key)
        IN /\ schedule[key].pieces = SumSeq([k \in DOMAIN entries |-> entries[k].pieces])
           /\ entries # <<>> =>
                 /\ schedule[key].task_id = entries[1].task_id
                 /\ schedule[key].description = entries[1].description

\* ---------------------------------------------------------------------
\* C8: remaining_qty is never negative and never increases; a production
\* step takes no more pieces than the task's remaining_qty at that moment,
\* whichever worker left it, and the pieces produced on a task within a slot
\* never exceed its remaining_qty at the start of the slot.
\* ---------------------------------------------------------------------
C8_RemainingQty ==
    /\ [](\A k \in DOMAIN all_task_instances : all_task_instances[k].remaining_qty >= 0)
    /\ [](pc \in {"for_worker", "while"} =>
             \A k \in DOMAIN all_task_instances :
                 LoggedAt(simulation_log, all_task_instances[k].task_id,
                          format_time(current_time_minutes)) <= SlotStartQty(k))
    /\ [][(pc = "loop" /\ pc' = "for_worker") =>
             \A k \in DOMAIN all_task_instances :
                 all_task_instances[k].remaining_qty = SlotStartQty(k)]_vars
    /\ [][\A k \in DOMAIN all_task_instances :
             /\ pc # "start" =>
                   all_task_instances'[k].remaining_qty <= all_task_instances[k].remaining_qty
             /\ (ProducedStep /\ k = task) =>
                   /\ simulation_log'[Len(simulation_log')].pieces
                         <= all_task_instances[k].remaining_qty
                   /\ all_task_instances'[k].remaining_qty =
                         all_task_instances[k].remaining_qty
                            - simulation_log'[Len(simulation_log')].pieces]_vars

\* A later worker of the slot works the task an earlier worker already worked.
C8_Witness ==
    /\ pc = "while"
    /\ Len(simulation_log) >= 2
    /\ LastEntry.worker = worker_idx
    /\ LastEntry.time = format_time(current_time_minutes)
    /\ \E i \in 1..(Len(simulation_log) - 1) :
          /\ simulation_log[i].time = LastEntry.time
          /\ simulation_log[i].task_id = LastEntry.task_id
          /\ simulation_log[i].worker < LastEntry.worker

\* ---------------------------------------------------------------------
\* C9: inventory starts at zero; a step changes it only by adding the
\* pieces it logs to the produced task's entry.
\* ---------------------------------------------------------------------
C9_Inventory ==
    /\ [](pc = "start" => \A id \in TaskIds : inventory[id] = 0)
    /\ [][\A id \in TaskIds :
             /\ inventory'[id] >= inventory[id]
             /\ IF ProducedStep /\ simulation_log'[Len(simulation_log')].task_id = id
                THEN /\ simulation_log' = Append(simulation_log, simulation_log'[Len(simulation_log')])
                     /\ inventory'[id] = inventory[id] + simulation_log'[Len(simulation_log')].pieces
                ELSE inventory'[id] = inventory[id]]_vars

C9_Witness ==
    /\ simulation_log # <<>>
    /\ inventory[LastEntry.task_id] > LastEntry.pieces

\* ---------------------------------------------------------------------
\* C10: a run that faults returns the failure value alone: no schedule, no
\* inventory and no log of the partial run.
\* ---------------------------------------------------------------------
C10_FailureOnly == Failed => result = None

\* The fault comes after an earlier worker produced pieces in the same slot.
C10_Witness ==
    /\ Failed
    /\ simulation_log # <<>>
    /\ LastEntry.time = format_time(current_time_minutes)
    /\ LastEntry.worker < worker_idx

\* ---------------------------------------------------------------------
\* C11: when the held task is exhausted mid-slot with time left, the worker
\* goes on with a task of largest remaining_qty among the tasks with work
\* left that are eligible against the current inventory, and its slot ends
\* only if there is no such task.
\* ---------------------------------------------------------------------
LiveEligible == EligibleTasks(all_task_instances, inventory)

C11_SwitchUsesLiveInventory ==
    [][(pc = "while" /\ time_remaining > 0 /\ all_task_instances[task].remaining_qty <= 0) =>
          IF LiveEligible = <<>>
          THEN pc' = "for_worker"
          ELSE /\ pc' = "while"
               /\ \E i \in DOMAIN LiveEligible : task' = LiveEligible[i]
               /\ \A i \in DOMAIN LiveEligible :
                     all_task_instances[LiveEligible[i]].remaining_qty
                        <= all_task_instances[task'].remaining_qty]_vars

\* ---------------------------------------------------------------------
\* C12: a slot in which no task with work left passes the gate changes
\* neither inventory, log, schedule nor any remaining_qty, and advances the
\* elapsed time by exactly one slot duration.
\* ---------------------------------------------------------------------
C12_SkippedSlotFrame ==
    [][(pc = "loop" /\ ~AllDone /\ LiveEligible = <<>>) =>
          /\ inventory' = inventory
          /\ simulation_log' = simulation_log
          /\ schedule' = schedule
          /\ all_task_instances' = all_task_instances
          /\ current_time_minutes' = current_time_minutes + slot_duration_minutes
          /\ pc' = "loop"]_vars

\* A slot was skipped after an earlier slot had produced pieces.
C12_Witness ==
    /\ pc = "loop" /\ ~AllDone /\ LiveEligible = <<>>
    /\ simulation_log # <<>>
    /\ current_time_minutes > MinutesOf(LastEntry.time) + slot_duration_minutes

\* ---------------------------------------------------------------------
\* C13: at the start of a non-skipped slot every worker is assigned an
\* eligible task with work left whose (skill match, remaining_qty) no other
\* candidate exceeds, the earliest instance among equals; the pick removes
\* nothing from the candidates, so workers may share an instance.
\* ---------------------------------------------------------------------
SkillScore(w, k) ==
    calculate_skill_match(available_workers_df[w].Skills, all_task_instances[k].skill_requirements)

\* Candidate j is at least as good a pick for worker w as candidate a:
\* a better key, or the same key and not later in instance order.
Outranks(w, j, a) ==
    LET sj == SkillScore(w, j)
        sa == SkillScore(w, a)
        qj == all_task_instances[j].remaining_qty
        qa == all_task_instances[a].remaining_qty
    IN \/ sa[1] * sj[2] < sj[1] * sa[2]
       \/ (sa[1] * sj[2] = sj[1] * sa[2] /\ qj > qa)
       \/ (sa[1] * sj[2] = sj[1] * sa[2] /\ qj = qa /\ j < a)

C13_GreedyAssignment ==
    [][(pc = "loop" /\ pc' = "for_worker") =>
          /\ DOMAIN worker_assignments' = DOMAIN available_workers_df
          /\ \A w \in DOMAIN available_workers_df :
                /\ \E i \in DOMAIN LiveEligible : worker_assignments'[w] = LiveEligible[i]
                /\ \A i \in DOMAIN LiveEligible :
                      ~Outranks(w, LiveEligible[i], worker_assignments'[w])]_vars

\* Two workers with different skill rows share an instance although
\* another candidate was open.
C13_Witness ==
    /\ pc = "for_worker" /\ worker_idx = 1
    /\ Len(worker_assignments) >= 2
    /\ worker_assignments[1] = worker_assignments[2]
    /\ available_workers_df[1].Skills # available_workers_df[2].Skills
    /\ Len(available_tasks) >= 2
    /\ \E i \in DOMAIN available_tasks :
          /\ available_tasks[i] # worker_assignments[1]
          /\ all_task_instances[available_tasks[i]].remaining_qty
                >= all_task_instances[worker_assignments[1]].remaining_qty

\* ---------------------------------------------------------------------
\* C14: a run returns with work left only once the elapsed minutes exceed
\* estimated_days * workday_minutes * 2, with estimated_days the least
\* d >= 1 such that d days of all workers cover the ordered work; up to that
\* bound the end of a slot leads back to the loop, and at return the elapsed
\* time exceeds the bound by at most one slot duration.
\* ---------------------------------------------------------------------
OrderedSeconds ==
    SumSeq([i \in DOMAIN products_df |->
              products_df[i].TimePerPieceSeconds * OrderedQty(products_df[i].Product)])

WorkerSecondsPerDay == Len(available_workers_df) * 480 * 60

ClaimedDays ==
    CHOOSE d \in 1..((OrderedSeconds \div WorkerSecondsPerDay) + 1) :
        /\ d * WorkerSecondsPerDay >= OrderedSeconds
        /\ \A e \in 1..(d - 1) : e * WorkerSecondsPerDay < OrderedSeconds

ClaimedCutoff == ClaimedDays * 480 * 2

C14_CutoffOnly ==
    /\ []((Returned /\ ~AllDone) => current_time_minutes > ClaimedCutoff)
    /\ [](Returned => current_time_minutes <= ClaimedCutoff + slot_duration_minutes)
    /\ [][(pc = "for_worker" /\ worker_idx > Len(worker_assignments)
             /\ current_time_minutes + slot_duration_minutes <= ClaimedCutoff)
            => pc' = "loop"]_vars

\* The run went on producing on a day past the estimate and stopped at the
\* cutoff with work left.
C14_Witness ==
    /\ Returned /\ ~AllDone
    /\ simulation_log # <<>>
    /\ DayOf(LastEntry.time) > ClaimedDays
    /\ current_time_minutes > ClaimedCutoff

\* ---------------------------------------------------------------------
\* C15: a schedule cell (day, worker, slot) is written at most once, and
\* every slot index is >= 0 and below workday_minutes / slot_duration_minutes,
\* also for a slot duration that does not divide the workday.
\* ---------------------------------------------------------------------
C15_CellsWrittenOnce ==
    /\ [][(pc = "while" /\ pc' = "for_worker") => CellKey \notin DOMAIN schedule]_vars
    /\ [](/\ current_slot >= 0
          /\ current_slot * slot_duration_minutes < 480
          /\ \A key \in DOMAIN schedule :
                key[3] >= 0 /\ key[3] * slot_duration_minutes < 480)

\* Cells of a second day under a slot duration that does not divide 480.
C15_Witness ==
    /\ 480 % slot_duration_minutes # 0
    /\ \E key \in DOMAIN schedule : key[1] = 2 /\ key[3] > 0
    /\ \E key \in DOMAIN schedule : key[1] = 1 /\ key[3] * slot_duration_minutes + slot_duration_minutes > 480

\* ---------------------------------------------------------------------
\* C16: a schedule cell exists for (day, worker, slot) exactly when the
\* worker produced at least one piece in that slot.
\* ---------------------------------------------------------------------
C16_CellIffProduced ==
    /\ \A key \in DOMAIN schedule : EntriesOfCell(simulation_log, key) # <<>>
    /\ \A k \in DOMAIN simulation_log :
          LET e == simulation_log[k]
          IN \/ <<DayOf(e.time), e.worker, SlotOf(e.time)>> \in DOMAIN schedule
             \/ (pc = "while" /\ e.worker = worker_idx
                   /\ e.time = format_time(current_time_minutes))

\* ---------------------------------------------------------------------
\* C17: the work time of one worker within one slot, pieces times
\* time_per_piece summed over its log entries of the slot, is at most the
\* slot duration in seconds.
\* ---------------------------------------------------------------------
TimePerPieceOf(id) ==
    LET i == CHOOSE i \in DOMAIN products_df : products_df[i].Result = id
    IN products_df[i].TimePerPieceSeconds

WorkSeconds(w, label) ==
    SumSeq([k \in DOMAIN simulation_log |->
              IF simulation_log[k].worker = w /\ simulation_log[k].time = label
              THEN simulation_log[k].pieces * TimePerPieceOf(simulation_log[k].task_id)
              ELSE 0])

C17_SlotTimeRespected ==
    \A k \in DOMAIN simulation_log :
        WorkSeconds(simulation_log[k].worker, simulation_log[k].time) <= slot_duration_minutes * 60

\* A worker filled its slot exactly with pieces of two tasks.
C17_Witness ==
    /\ Len(simulation_log) >= 2
    /\ simulation_log[Len(simulation_log) - 1].worker = LastEntry.worker
    /\ simulation_log[Len(simulation_log) - 1].time = LastEntry.time
    /\ simulation_log[Len(simulation_log) - 1].task_id # LastEntry.task_id
    /\ WorkSeconds(LastEntry.worker, LastEntry.time) = slot_duration_minutes * 60

\* ---------------------------------------------------------------------
\* C18: with at least one worker, every prerequisite a task of an ordered
\* product, no prerequisite cycle and every time_per_piece between 1 and the
\* slot's seconds, a run that returns has every remaining_qty at 0.
\* ---------------------------------------------------------------------
InstanceIds(S) == { all_task_instances[k].task_id : k \in S }

RECURSIVE Grounded(_, _)
\* The instances all of whose prerequisites are grounded, after n rounds.
Grounded(S, n) ==
    IF n = 0 THEN S
    ELSE Grounded({ k \in DOMAIN all_task_instances :
                      \A r \in DOMAIN all_task_instances[k].requirements :
                          all_task_instances[k].requirements[r] \in InstanceIds(S) },
                  n - 1)

Satisfiable ==
    /\ Len(available_workers_df) >= 1
    /\ \A k \in DOMAIN all_task_instances :
          /\ all_task_instances[k].time_per_piece >= 1
          /\ all_task_instances[k].time_per_piece <= slot_duration_minutes * 60
    /\ Grounded({}, Len(all_task_instances)) = DOMAIN all_task_instances

C18_SatisfiableFinishes == (Returned /\ Satisfiable) => AllDone

====
